---- MODULE Spec2Model ----
(***************************************************************************)
(* Detection-to-track reconciliation and trail state of                    *)
(* yolov8_segmentation_tracking.py: result_to_json, view_result_default,   *)
(* image_processing, video_processing and ObjectDetector.                  *)
(*                                                                         *)
(* The detector (model.predict) and the tracker (DeepSort.update_tracks)   *)
(* are external: what they return for a frame is an input of the frame.    *)
(* Confidences are floats in [0,1]; they are carried as integers in units  *)
(* of 1e-6 (0.80 is 800000, 0.80001 is 800010).                            *)
(***************************************************************************)
EXTENDS Integers, Sequences, FiniteSets, TLC

\* ------------------------------------------------------------- bounds
MaxFrames == 1      \* frames a camera feed delivers in one session
MaxDets == 2        \* detections per frame of a camera feed
MaxTracks == 2      \* tracks the tracker returns per frame of a camera feed
LongFrames == 32    \* frames of a recorded clip
MaxStops == 1       \* calls of on_stop in one session

\* ------------------------------------------------- program constants
NumSlots == 10000   \* range(10000)
MaxLen == 30        \* deque(maxlen=30)
None == -1          \* track.det_conf is None (a confidence is never negative)

\* ------------------------------------------------------------ helpers
Abs(x) == IF x < 0 THEN -x ELSE x

Min(S) == CHOOSE x \in S : \A y \in S : x <= y

LastN(s, n) == IF Len(s) <= n THEN s ELSE SubSeq(s, Len(s) - n + 1, Len(s))

SeqsUpTo(S, n) == UNION {[1..k -> S] : k \in 0..n}

\* ---------------------------------------------------- the trail store
\* centers = [deque(maxlen=30) for _ in range(10000)]: a list of NumSlots
\* deques. Only the slots whose index the tracker can name (TrackIds) are
\* carried; every other slot is an empty deque that is never indexed.
TrackIds == {7, 9999, 10000}

SlotsBelow(n) == {i \in TrackIds : i < n}

NewCenters == [len |-> NumSlots, at |-> [i \in SlotsBelow(NumSlots) |-> << >>]]

\* list.clear(): the list itself becomes empty, no slot is left.
clear(c) == [len |-> 0, at |-> [i \in SlotsBelow(0) |-> << >>]]

\* centers[i] raises IndexError unless the index is inside the list
\* (track ids are positive, so negative indexing never applies).
InRange(c, i) == 0 <= i /\ i < c.len

\* deque.append on a deque with maxlen: a full deque drops its leftmost item.
deque_append_unbounded(d, p) == Append(d, p)

deque_append(d, p) ==
    LET s == Append(d, p)
    IN  IF Len(s) > MaxLen THEN Tail(s) ELSE s

\* int(x / 2) for an integer x: float division, truncated toward zero.
IntHalf(x) == IF x >= 0 THEN x \div 2 ELSE -((-x) \div 2)

center(bbox) ==
    << IntHalf(bbox.x_min + bbox.x_max), IntHalf(bbox.y_min + bbox.y_max) >>

\* ------------------------------------------------------ result_to_json
\* np.isclose(a, b) with numpy's defaults rtol = 1e-5, atol = 1e-8:
\*   |a - b| <= atol + rtol * |b|.
\* In units of 1e-6 this is |a - b| <= (1000 + |b|) / 100000, and since the
\* left side is an integer, |a - b| <= floor((1000 + |b|) / 100000).
\* The code computes in float64. For confidences on the 1e-6 grid of [0,1]
\* the rounded comparison differs from the exact one only where |a - b|
\* equals the tolerance exactly; these are the pairs <<a, b>> of that kind
\* that float64 rounds to "not close".
Float64TieNotClose ==
    {<<98999, 99000>>, <<99001, 99000>>, <<198998, 199000>>,
     <<199002, 199000>>, <<299003, 299000>>, <<398996, 399000>>,
     <<399004, 399000>>, <<599006, 599000>>, <<699007, 699000>>,
     <<798992, 799000>>, <<799008, 799000>>, <<898991, 899000>>}

isclose(a, b) ==
    /\ Abs(a - b) <= (1000 + Abs(b)) \div 100000
    /\ <<a, b>> \notin Float64TieNotClose

\* next((i for i, track in enumerate(tracks) if ...), -1); positions are
\* 1-based here, -1 when no track matches.
track_idx_ignoring_conf(tracks, confidence) ==
    IF Len(tracks) = 0 THEN -1 ELSE 1

track_idx(tracks, confidence) ==
    LET hits == {i \in 1..Len(tracks) :
                    /\ tracks[i].det_conf # None
                    /\ isclose(tracks[i].det_conf, confidence)}
    IN  IF hits = {} THEN -1 ELSE Min(hits)

WithObjectId(r, id) ==
    [class_id |-> r.class_id, confidence |-> r.confidence, bbox |-> r.bbox,
     object_id |-> id]

\* dets: the detector's boxes as the dicts of result_list_json (the class
\* name is a function of class_id; masks do not bear on identities).
\* has_tracker: tracker is not None; tracks: what tracker.update_tracks
\* returns for this frame.
result_to_json(dets, has_tracker, tracks) ==
    IF ~has_tracker THEN dets
    ELSE [idx \in 1..Len(dets) |->
            LET ti == track_idx(tracks, dets[idx].confidence)
            IN  IF ti # -1 THEN WithObjectId(dets[idx], tracks[ti].track_id)
                ELSE dets[idx]]

\* ------------------------------------------------- view_result_default
HasId(r) == "object_id" \in DOMAIN r

\* Line 219-224: centers[object_id].append(center).
trail_append(r, c) ==
    IF InRange(c, r.object_id)
    THEN [centers |-> [c EXCEPT !.at[r.object_id] =
                            deque_append(@, center(r.bbox))],
          err |-> "none"]
    ELSE [centers |-> c, err |-> "IndexError"]

\* Lines 225-238: the trail is read again, len(centers[object_id]) and its
\* points, to draw the lines; the image alone changes.
trail_draw(r, c) == IF InRange(c, r.object_id) THEN "none" ELSE "IndexError"

\* The body of the loop for one detection. (Lines 176-217 draw the box and
\* the label and do not touch centers.)
view_one(r, c, has_centers) ==
    IF HasId(r) /\ has_centers
    THEN LET a == trail_append(r, c)
         IN  IF a.err # "none" THEN a
             ELSE [centers |-> a.centers, err |-> trail_draw(r, a.centers)]
    ELSE [centers |-> c, err |-> "none"]

RECURSIVE view_from(_, _, _, _)
view_from(result, i, c, has_centers) ==
    IF i > Len(result) THEN [centers |-> c, err |-> "none"]
    ELSE LET v == view_one(result[i], c, has_centers)
         IN  IF v.err # "none" THEN v
             ELSE view_from(result, i + 1, v.centers, has_centers)

view_result_default(result, c, has_centers) == view_from(result, 1, c, has_centers)

\* ----------------------------------------------------- image_processing
image_processing(dets, has_tracker, tracks, c, has_centers) ==
    LET result_list_json == result_to_json(dets, has_tracker, tracks)
        v == view_result_default(result_list_json, c, has_centers)
    IN  [result |-> result_list_json, centers |-> v.centers, err |-> v.err]

\* -------------------------------------------------------------- inputs
\* What the detector and the tracker can hand to one frame of a camera feed.
\* 0.80 and 0.800005 are within tolerance of each other, 0.80 and 0.80001
\* are not.
Box1 == [x_min |-> 10, y_min |-> 10, x_max |-> 50, y_max |-> 50]

Box2 == [x_min |-> 20, y_min |-> 20, x_max |-> 61, y_max |-> 60]

Dets == {[class_id |-> 2, confidence |-> 800000, bbox |-> Box1],
         [class_id |-> 2, confidence |-> 800005, bbox |-> Box2],
         [class_id |-> 2, confidence |-> 800010, bbox |-> Box1]}

Tracks(ids) ==
    [track_id : {7}, det_conf : {None, 800000}]
        \cup [track_id : ids \ {7}, det_conf : {800010}]

\* A camera feed: any detections, any tracks over the ids the tracker has
\* reached; it delivers frames until the session is stopped. A clip: a
\* recorded object that moves 10 pixels per frame and is tracked as one
\* identity, optionally next to a second, untracked detection; after a stop
\* a clip is played once more from its first frame, as far as it had been
\* played before the stop.
Camera(ids) == [kind |-> "camera", ids |-> ids, n |-> MaxFrames, extra |-> FALSE]

Clip(id, n, extra) == [kind |-> "clip", ids |-> {id}, n |-> n, extra |-> extra]

ClipId(f) == CHOOSE i \in f.ids : TRUE

ClipBox(k) == [x_min |-> 10 * k, y_min |-> 10 * k,
               x_max |-> 10 * k + 40, y_max |-> 10 * k + 40]

ClipFrame(f, k) ==
    [dets |-> << [class_id |-> 2, confidence |-> 910000, bbox |-> ClipBox(k)] >>
              \o (IF f.extra
                  THEN << [class_id |-> 2, confidence |-> 800000,
                           bbox |-> ClipBox(1)] >>
                  ELSE << >>),
     tracks |-> << [track_id |-> ClipId(f), det_conf |-> 910000] >>]

\* What model.predict can return for frame number k of feed f.
FrameDets(f, k) ==
    IF f.kind = "clip" THEN {ClipFrame(f, k).dets}
    ELSE SeqsUpTo(Dets, MaxDets)

\* What tracker.update_tracks can return for a frame of feed f.
FrameTracks(f) ==
    IF f.kind = "clip" THEN {ClipFrame(f, 1).tracks}
    ELSE SeqsUpTo(Tracks(f.ids), MaxTracks)

\* The inputs frame number k of feed f can bring.
Frames(f, k) ==
    {[dets |-> d, tracks |-> tr] : d \in FrameDets(f, k), tr \in FrameTracks(f)}

\* --------------------------------------------------------------- state
VARIABLES
    session,    \* "live" (ObjectDetector), "video" or "image" (the tabs)
    feed,       \* the input source of the session
    centers,    \* the session's trail store
    tracks,     \* the tracker's track list
    dets,       \* the detections of the last frame
    result,     \* result_list_json of the last frame
    err,        \* the exception the last handler raised, "none" if none
    op,         \* the last handler that returned or raised
    t,          \* frames handed to the pipeline in this session
    stops,      \* calls of on_stop that have returned
    prev,       \* the run the last on_stop ended: t and the trails at the
                \* clear, and whether no frame was in flight then
    json_file,  \* tokens written to the video's json file
    vpc,        \* position of video_processing
    pc,         \* position of transform
    idx,        \* loop index of transform in view_result_default
    spc         \* position of on_stop

vars == << session, feed, centers, tracks, dets, result, err, op, t, stops,
           prev, json_file, vpc, pc, idx, spc >>

LiveFeeds ==
    {Camera({7})}
        \cup {Clip(i, LongFrames, e) : i \in TrackIds, e \in BOOLEAN}

VideoFeeds == {Clip(i, n, e) : i \in TrackIds, n \in 0..LongFrames, e \in BOOLEAN}

\* Frames of the current run that were handed to the pipeline.
Position == t - prev.t

FramesLeft ==
    IF feed.kind = "clip"
    THEN \/ stops = 0 /\ Position < feed.n
         \/ stops = 1 /\ Position < prev.t
    ELSE stops = 0 /\ t < feed.n

\* ObjectDetector.__init__ and the video tab both start from a new tracker
\* and a new list of empty deques.
Init ==
    /\ centers = NewCenters
    /\ tracks = << >>
    /\ dets = << >>
    /\ result = << >>
    /\ err = "none"
    /\ op = "init"
    /\ t = 0
    /\ stops = 0
    /\ prev = [t |-> 0, centers |-> NewCenters, quiet |-> TRUE]
    /\ json_file = << >>
    /\ pc = "idle"
    /\ idx = 0
    /\ spc = "idle"
    /\ \/ session = "live" /\ feed \in LiveFeeds /\ vpc = "none"
       \/ session = "video" /\ feed \in VideoFeeds /\ vpc = "ready"
       \/ session = "image" /\ feed = Camera({7}) /\ vpc = "none"

\* ---------------------------------------------- ObjectDetector, live
\* ObjectDetector takes no lock and on_stop does not wait for transform:
\* transform blocks in model.predict and in tracker.update_tracks before it
\* touches the trail store, and when the host calls on_stop meanwhile the
\* statements of the two methods interleave. transform and on_stop are
\* therefore taken statement by statement, and a frame may start at any
\* moment, between the two statements of on_stop included. A frame is in
\* flight from the call of transform to its return.

\* transform up to the call of result_to_json: frame.to_ndarray and
\* model.predict.
transform_predict ==
    /\ session = "live"
    /\ pc = "idle"
    /\ FramesLeft
    /\ dets' \in FrameDets(feed, Position + 1)
    /\ result' = << >>
    /\ pc' = "predicted"
    /\ err' = "none"
    /\ t' = t + 1
    /\ UNCHANGED << session, feed, centers, tracks, op, stops, prev,
                    json_file, vpc, idx, spc >>

\* result_to_json: tracker.update_tracks (line 104) and the matching of its
\* answer, which reads locals only.
transform_update_tracks ==
    /\ pc = "predicted"
    /\ tracks' \in FrameTracks(feed)
    /\ result' = result_to_json(dets, TRUE, tracks')
    /\ pc' = "view"
    /\ idx' = 1
    /\ UNCHANGED << session, feed, centers, dets, err, op, t, stops, prev,
                    json_file, vpc, spc >>

\* One pass of the loop of view_result_default up to the append of line 219;
\* an exception ends transform.
transform_append ==
    /\ pc = "view"
    /\ idx <= Len(result)
    /\ IF HasId(result[idx])
       THEN LET a == trail_append(result[idx], centers)
            IN  /\ centers' = a.centers
                /\ err' = a.err
                /\ IF a.err = "none"
                   THEN pc' = "draw" /\ idx' = idx /\ op' = op
                   ELSE pc' = "idle" /\ idx' = 0 /\ op' = "transform"
       ELSE /\ idx' = idx + 1
            /\ UNCHANGED << centers, err, pc, op >>
    /\ UNCHANGED << session, feed, tracks, dets, result, t, stops, prev,
                    json_file, vpc, spc >>

\* The rest of the pass: the reads of lines 225-238.
transform_draw ==
    /\ pc = "draw"
    /\ err' = trail_draw(result[idx], centers)
    /\ IF trail_draw(result[idx], centers) = "none"
       THEN pc' = "view" /\ idx' = idx + 1 /\ op' = op
       ELSE pc' = "idle" /\ idx' = 0 /\ op' = "transform"
    /\ UNCHANGED << session, feed, centers, tracks, dets, result, t, stops,
                    prev, json_file, vpc, spc >>

\* The loop is over: transform returns the image, nothing was raised.
transform_return ==
    /\ pc = "view"
    /\ idx > Len(result)
    /\ pc' = "idle"
    /\ idx' = 0
    /\ op' = "transform"
    /\ err' = "none"
    /\ UNCHANGED << session, feed, centers, tracks, dets, result, t, stops,
                    prev, json_file, vpc, spc >>

\* on_stop, first statement: self.tracker.delete_all_tracks().
on_stop_delete_all_tracks ==
    /\ session = "live"
    /\ spc = "idle"
    /\ stops < MaxStops
    /\ tracks' = << >>
    /\ spc' = "clear"
    /\ UNCHANGED << session, feed, centers, dets, result, err, op, t, stops,
                    prev, json_file, vpc, pc, idx >>

\* on_stop, second statement: self.centers.clear(), and the return.
on_stop_clear ==
    /\ spc = "clear"
    /\ centers' = clear(centers)
    /\ prev' = [t |-> t, centers |-> centers, quiet |-> pc = "idle"]
    /\ stops' = stops + 1
    /\ spc' = "idle"
    /\ op' = "on_stop"
    /\ err' = "none"
    /\ UNCHANGED << session, feed, tracks, dets, result, t, json_file, vpc,
                    pc, idx >>

\* ------------------------------------------------------------ the tabs
\* The image tab: image_processing(img, model), tracker and centers left None.
tab_image_with_tracker ==
    /\ session = "image"
    /\ \E f \in Frames(feed, 1) :
          LET r == image_processing(f.dets, TRUE, f.tracks, centers, TRUE)
          IN  /\ dets' = f.dets
              /\ result' = r.result
              /\ centers' = r.centers
              /\ err' = r.err
    /\ op' = "image"
    /\ UNCHANGED << session, feed, tracks, t, stops, prev, json_file, vpc, pc,
                    idx, spc >>

tab_image ==
    /\ session = "image"
    /\ \E d \in SeqsUpTo(Dets, MaxDets) :
          LET r == image_processing(d, FALSE, << >>, centers, FALSE)
          IN  /\ dets' = d
              /\ result' = r.result
              /\ centers' = r.centers
              /\ err' = r.err
    /\ op' = "image"
    /\ UNCHANGED << session, feed, tracks, t, stops, prev, json_file, vpc, pc,
                    idx, spc >>

\* video_processing up to the loop: results[0] is read for the frame size
\* after the json file is opened and before "[" is written.
video_open ==
    /\ session = "video"
    /\ vpc = "ready"
    /\ IF feed.n = 0
       THEN /\ err' = "IndexError"
            /\ vpc' = "aborted"
            /\ json_file' = json_file
       ELSE /\ err' = "none"
            /\ vpc' = "loop"
            /\ json_file' = Append(json_file, [tok |-> "["])
    /\ op' = "video_open"
    /\ UNCHANGED << session, feed, centers, tracks, dets, result, t, stops,
                    prev, pc, idx, spc >>

\* One pass of the loop over results: result_to_json, the viewer, then
\* json.dump of the frame's list and ",". An exception ends the function.
\* The video tab runs in the script's own thread, nothing runs beside it.
video_frame ==
    /\ session = "video"
    /\ vpc = "loop"
    /\ FramesLeft
    /\ \E f \in Frames(feed, Position + 1) :
          LET r == image_processing(f.dets, TRUE, f.tracks, centers, TRUE)
          IN  /\ dets' = f.dets
              /\ tracks' = f.tracks
              /\ result' = r.result
              /\ centers' = r.centers
              /\ err' = r.err
              /\ IF r.err = "none"
                 THEN /\ json_file' = json_file \o
                            << [tok |-> "value", value |-> r.result],
                               [tok |-> ","] >>
                      /\ vpc' = vpc
                 ELSE /\ json_file' = json_file
                      /\ vpc' = "aborted"
    /\ op' = "video_frame"
    /\ t' = t + 1
    /\ UNCHANGED << session, feed, stops, prev, pc, idx, spc >>

\* After the loop: "]".
video_close ==
    /\ session = "video"
    /\ vpc = "loop"
    /\ ~FramesLeft
    /\ json_file' = Append(json_file, [tok |-> "]"])
    /\ vpc' = "done"
    /\ op' = "video_close"
    /\ UNCHANGED << session, feed, centers, tracks, dets, result, err, t,
                    stops, prev, pc, idx, spc >>

\* process_frame: one frame through image_processing with the module globals
\* tracker and centers. The video tab binds them (lines 383-384); where it
\* has not run, reading the name tracker raises NameError at any moment and
\* touches none of the session's state. After the video the clip's object
\* moves on as before.
process_frame ==
    /\ IF session = "video"
       THEN /\ vpc \in {"done", "aborted"}
            /\ t < feed.n + MaxFrames
            /\ \E f \in Frames(feed, t + 1) :
                  LET r == image_processing(f.dets, TRUE, f.tracks, centers, TRUE)
                  IN  /\ dets' = f.dets
                      /\ tracks' = f.tracks
                      /\ result' = r.result
                      /\ centers' = r.centers
                      /\ err' = r.err
            /\ t' = t + 1
       ELSE /\ err' = "NameError"
            /\ UNCHANGED << dets, tracks, result, centers, t >>
    /\ op' = "process_frame"
    /\ UNCHANGED << session, feed, stops, prev, json_file, vpc, pc, idx, spc >>

Next ==
    \/ transform_predict
    \/ transform_update_tracks
    \/ transform_append
    \/ transform_draw
    \/ transform_return
    \/ on_stop_delete_all_tracks
    \/ on_stop_clear
    \/ process_frame
    \/ tab_image
    \/ video_open
    \/ video_frame
    \/ video_close

Spec == Init /\ [][Next]_vars

\* -------------------------------------------------------------- claims
Identified(res) == {i \in 1..Len(res) : HasId(res[i])}

\* The centers of the detections of res that carry identity i, in order.
PointsFor(res, i) ==
    LET sel == SelectSeq(res, LAMBDA r : HasId(r) /\ r.object_id = i)
    IN  [j \in 1..Len(sel) |-> center(sel[j].bbox)]

Points(trail) == {trail[j] : j \in 1..Len(trail)}

\* This step is a whole frame taken by the video tab or by process_frame.
AtomicFrame == session = "video" /\ op' \in {"video_frame", "process_frame"}

\* This step ran result_to_json with a tracker.
ResultComputed == (pc = "predicted" /\ pc' = "view") \/ AtomicFrame

\* This step is transform at line 219 for an identified detection.
StepAppend ==
    /\ pc = "view"
    /\ pc' \in {"draw", "idle"}
    /\ idx <= Len(result)
    /\ HasId(result[idx])

\* C1: every trail holds at most MaxLen (30) points in every reachable state;
\* the points a step appends to a trail are centers of the frame's detections
\* of that identity, they go to its end in order and what no longer fits
\* leaves from the front (FIFO); once a clip has updated its identity 31
\* times or more the trail has 30 points and the first point, (30,30), is
\* gone.
C1_Bounded == \A i \in DOMAIN centers.at : Len(centers.at[i]) <= MaxLen

C1_FifoStep ==
    \A i \in (DOMAIN centers.at) \cap (DOMAIN centers'.at) :
        centers'.at[i] # centers.at[i] =>
            \E a, b \in 1..Len(PointsFor(result', i)) :
                /\ a <= b
                /\ centers'.at[i] =
                      LastN(centers.at[i] \o SubSeq(PointsFor(result', i), a, b),
                            MaxLen)

C1_AfterCapacity ==
    (/\ feed.kind = "clip"
     /\ pc = "idle"
     /\ Position >= MaxLen + 1
     /\ ClipId(feed) \in DOMAIN centers.at)
        => /\ Len(centers.at[ClipId(feed)]) = MaxLen
           /\ center(ClipBox(1)) \notin Points(centers.at[ClipId(feed)])

C1_TrailCapacityFifo ==
    /\ [](C1_Bounded /\ C1_AfterCapacity)
    /\ [][C1_FifoStep]_vars

C1_Witness ==
    /\ session = "live"
    /\ Position = MaxLen + 1
    /\ ClipId(feed) \in DOMAIN centers.at
    /\ Len(centers.at[ClipId(feed)]) = MaxLen
    /\ centers.at[ClipId(feed)][1] = center(ClipBox(2))
    /\ centers.at[ClipId(feed)][MaxLen] = center(ClipBox(MaxLen + 1))

\* C2: matching soundness. When a frame goes through result_to_json with a
\* tracker, every object_id in the result is the track_id of a track the
\* tracker returned for that frame whose det_conf is not None and is within
\* tolerance of the detection's confidence; the result keeps the detections'
\* order and count; when no track has a det_conf (the track list is empty or
\* all are None) no detection is identified; and a frame raises only when it
\* identified a detection.
C2_Step ==
    ResultComputed =>
        /\ Len(result') = Len(dets')
        /\ \A i \in 1..Len(result') :
              /\ result'[i].confidence = dets'[i].confidence
              /\ HasId(result'[i]) =>
                    \E j \in 1..Len(tracks') :
                        /\ tracks'[j].track_id = result'[i].object_id
                        /\ tracks'[j].det_conf # None
                        /\ isclose(tracks'[j].det_conf, result'[i].confidence)
        /\ (\A j \in 1..Len(tracks') : tracks'[j].det_conf = None)
              => Identified(result') = {}

C2_NoError ==
    (op \in {"transform", "video_frame", "process_frame"} /\ err = "IndexError")
        => Identified(result) # {}

C3_ReadAfterReset ==
    op = "on_stop" =>
        \A i \in DOMAIN prev.centers.at :
            InRange(centers, i) /\ centers.at[i] = << >>

\* C4: a frame processed with no tracker (the image tab) yields a result with
\* one entry per detection and no object_id, raises nothing and leaves the
\* trail store as it was.
C4_NoTrackerStep ==
    op' = "image" =>
        /\ Len(result') = Len(dets')
        /\ Identified(result') = {}
        /\ err' = "none"
        /\ centers' = centers

C4_NoTrackerPassthrough == [][C4_NoTrackerStep]_vars

C4_Witness ==
    /\ op = "image"
    /\ Len(result) = 2
    /\ result[1].confidence = 800000
    /\ centers = NewCenters

\* C5: within one frame no two detections take their identity from the same
\* track.
C5_Step ==
    ResultComputed =>
        \A i, j \in Identified(result') :
            i < j => track_idx(tracks', result'[i].confidence)
                        # track_idx(tracks', result'[j].confidence)

C5_OneDetectionPerTrack == [][C5_Step]_vars

\* C6: the first update of an identity never seen before (no point in its
\* trail yet, store not reset) succeeds for every identity the tracker can
\* assign and leaves the trail equal to the one appended point.
C6_FirstUpdateStep ==
    /\ (/\ StepAppend
        /\ stops = 0
        /\ (InRange(centers, result[idx].object_id)
               => centers.at[result[idx].object_id] = << >>))
           => /\ err' = "none"
              /\ InRange(centers', result[idx].object_id)
              /\ centers'.at[result[idx].object_id]
                    = << center(result[idx].bbox) >>
    /\ (/\ AtomicFrame
        /\ Len(result') = 1
        /\ HasId(result'[1])
        /\ (InRange(centers, result'[1].object_id)
               => centers.at[result'[1].object_id] = << >>))
           => /\ err' = "none"
              /\ InRange(centers', result'[1].object_id)
              /\ centers'.at[result'[1].object_id]
                    = << center(result'[1].bbox) >>

C6_LazyCreation == [][C6_FirstUpdateStep]_vars

\* C7: a stop that arrives while a frame is in flight does not disturb the
\* frame: on_stop deletes the tracks and clears the store only when no frame
\* is in flight, and once on_stop has returned with no frame in flight the
\* store is cleared and the tracker holds no track.
C7_Step == spc' # spc => pc = "idle"

C7_AfterStop ==
    (op = "on_stop" /\ pc = "idle") => (centers.len = 0 /\ tracks = << >>)

C7_StopLeavesFrameUndisturbed == [][C7_Step]_vars /\ []C7_AfterStop

\* C8: replay determinism. When a clip whose identity the store holds is
\* run, the session is reset by on_stop with no frame in flight and the same
\* clip is run again, the second run raises nothing and ends with the trails
\* the first run ended with.
C8_ReplayIdentical ==
    (/\ session = "live"
     /\ feed.kind = "clip"
     /\ stops = 1
     /\ prev.quiet
     /\ prev.t >= 1
     /\ ClipId(feed) \in DOMAIN prev.centers.at
     /\ op = "transform"
     /\ pc = "idle"
     /\ spc = "idle"
     /\ Position = prev.t)
        => /\ err = "none"
           /\ \A i \in DOMAIN prev.centers.at :
                 InRange(centers, i) /\ centers.at[i] = prev.centers.at[i]

\* C9: when video_processing has finished, the json file holds "[", the N
\* per-frame lists in frame order with "," between consecutive ones, and "]".
RECURSIVE JsonArrayItems(_)
JsonArrayItems(values) ==
    IF Len(values) = 0 THEN << >>
    ELSE IF Len(values) = 1 THEN << [tok |-> "value", value |-> values[1]] >>
    ELSE << [tok |-> "value", value |-> values[1]], [tok |-> ","] >>
            \o JsonArrayItems(Tail(values))

JsonArray(values) ==
    << [tok |-> "["] >> \o JsonArrayItems(values) \o << [tok |-> "]"] >>

ClipResults(f) ==
    [k \in 1..f.n |->
        result_to_json(ClipFrame(f, k).dets, TRUE, ClipFrame(f, k).tracks)]

C9_WellFormedJsonArray ==
    vpc = "done" => json_file = JsonArray(ClipResults(feed))

\* C10: a frame processed with a tracker and a trail store appends to the
\* trail of every identity the centers of the detections that carry it, in
\* detection order (one point per detection, oldest points leaving a full
\* trail), and leaves every other trail unchanged; a detection without an
\* identity changes no trail.
C10_FrameStep ==
    /\ StepAppend =>
          \A i \in TrackIds :
              IF i = result[idx].object_id
              THEN /\ InRange(centers, i)
                   /\ InRange(centers', i)
                   /\ centers'.at[i] =
                         LastN(Append(centers.at[i], center(result[idx].bbox)),
                               MaxLen)
              ELSE InRange(centers, i) =>
                      (InRange(centers', i) /\ centers'.at[i] = centers.at[i])
    /\ (pc = "view" /\ pc' = "view" /\ idx' = idx + 1) => centers' = centers
    /\ AtomicFrame =>
          \A i \in TrackIds :
              IF PointsFor(result', i) = << >>
              THEN InRange(centers, i) =>
                      (InRange(centers', i) /\ centers'.at[i] = centers.at[i])
              ELSE /\ InRange(centers, i)
                   /\ InRange(centers', i)
                   /\ centers'.at[i] =
                          LastN(centers.at[i] \o PointsFor(result', i), MaxLen)

C10_FrameAppendsCenters == [][C10_FrameStep]_vars

====
